---- MODULE Spec2Model ----
(***************************************************************************)
(* Model of yazi-adapter's terminal emulator detection                     *)
(* (yazi-adapter/src/emulator.rs): Emulator::detect, Emulator::via_env,    *)
(* Emulator::via_csi and Emulator::read_until_da1.                         *)
(*                                                                         *)
(* Bytes are integers 0..255, byte strings are sequences of bytes.  The    *)
(* reply of the terminal is a sequence of bursts ("chunks") that arrive on *)
(* standard input after the query was written.                             *)
(***************************************************************************)
EXTENDS Integers, Sequences, FiniteSets, TLC

\* ------------------------------------------------------------------ bounds
\* The longest list of items passed to FilesSorter::sort.
MaxItems == 3

\* Largest number of bursts the terminal sends in reply to one query.
MaxChunks == 2

\* ------------------------------------------------------- program constants
\* Duration::from_secs(10) of read_until_da1.
TIMEOUT_SECS == 10

None == "<none>"

\* ------------------------------------------------------------ byte strings
\* 0x1b
ESC == 27

S_kitty   == <<107, 105, 116, 116, 121>>
S_Konsole == <<75, 111, 110, 115, 111, 108, 101>>
S_iTerm2  == <<105, 84, 101, 114, 109, 50>>
S_WezTerm == <<87, 101, 122, 84, 101, 114, 109>>
S_foot    == <<102, 111, 111, 116>>
S_ghostty == <<103, 104, 111, 115, 116, 116, 121>>

\* "\x1b_Gi=31;OK"
S_KgpOk == <<27, 95, 71, 105, 61, 51, 49, 59, 79, 75>>

\* "?4;", "?4c", ";4;", ";4c"
SixelMarks == << <<63, 52, 59>>, <<63, 52, 99>>, <<59, 52, 59>>, <<59, 52, 99>> >>

\* b"[?"
S_Da1Open == <<91, 63>>

\* -------------------------------------------------------------- Emulator
\* enum Emulator: a named variant carries no data, Unknown carries the
\* adapter list.
Named(t) == [tag |-> t, adapters |-> <<>>]
Unknown(adapters) == [tag |-> "Unknown", adapters |-> adapters]

\* Result<Emulator> of via_csi, and the state before it was called.
Ok(e) == [kind |-> "ok", val |-> e]
Err(why) == [kind |-> "err", val |-> Named(why)]
NotCalled == [kind |-> "none", val |-> Named(None)]

\* Result::unwrap in place of unwrap_or: the error is not replaced.
unwrap_or_Unwrap(r, dflt) == r.val

\* Result::unwrap_or
unwrap_or(r, dflt) == IF r.kind = "ok" THEN r.val ELSE dflt

\* -------------------------------------------------------------- sequences
\* str::contains / slice::contains on a sequence
Contains(s, t) ==
    \E i \in 1..(Len(s) - Len(t) + 1) : SubSeq(s, i, i + Len(t) - 1) = t

\* slice::starts_with
StartsWith(s, p) == Len(s) >= Len(p) /\ SubSeq(s, 1, Len(p)) = p

\* String::from_utf8_lossy: every byte of an invalid sequence becomes
\* U+FFFD, an ASCII byte decodes to itself.  (The only non-ASCII byte of
\* the model's alphabet is 0xFF, which is never part of a valid sequence.)
from_utf8_lossy(bytes) ==
    [i \in 1..Len(bytes) |-> IF bytes[i] < 128 THEN bytes[i] ELSE 65533]

\* ------------------------------------------------------------ environment
\* The environment variables detect() tests with env_exists, in the order
\* the code tests them.
EditorMarkers == {"NVIM_LOG_FILE", "NVIM"}

\* The first two rows exchanged.
vars_table_Swapped ==
    << <<"KONSOLE_VERSION", "Konsole">>,
       <<"KITTY_WINDOW_ID", "Kitty">>,
       <<"ITERM_SESSION_ID", "Iterm2">>,
       <<"WEZTERM_EXECUTABLE", "WezTerm">>,
       <<"GHOSTTY_RESOURCES_DIR", "Ghostty">>,
       <<"WT_Session", "Microsoft">>,
       <<"VSCODE_INJECTION", "VSCode">>,
       <<"TABBY_CONFIG_DIRECTORY", "Tabby">> >>

\* let vars = [ ... ]
vars_table ==
    << <<"KITTY_WINDOW_ID", "Kitty">>,
       <<"KONSOLE_VERSION", "Konsole">>,
       <<"ITERM_SESSION_ID", "Iterm2">>,
       <<"WEZTERM_EXECUTABLE", "WezTerm">>,
       <<"GHOSTTY_RESOURCES_DIR", "Ghostty">>,
       <<"WT_Session", "Microsoft">>,
       <<"VSCODE_INJECTION", "VSCode">>,
       <<"TABBY_CONFIG_DIRECTORY", "Tabby">> >>

DirectMarkers == {vars_table[i][1] : i \in 1..Len(vars_table)}
Markers == EditorMarkers \cup DirectMarkers

\* match program.as_str() { ... }
program_table ==
    << <<"iTerm.app", "Iterm2">>,
       <<"WezTerm", "WezTerm">>,
       <<"ghostty", "Ghostty">>,
       <<"rio", "Rio">>,
       <<"BlackBox", "BlackBox">>,
       <<"vscode", "VSCode">>,
       <<"Tabby", "Tabby">>,
       <<"Hyper", "Hyper">>,
       <<"mintty", "Mintty">>,
       <<"Apple_Terminal", "Apple">> >>

\* match term.as_str() { ... }
term_table ==
    << <<"xterm-kitty", "Kitty">>,
       <<"foot", "Foot">>,
       <<"foot-extra", "Foot">>,
       <<"xterm-ghostty", "Ghostty">>,
       <<"rio", "Rio">>,
       <<"rxvt-unicode-256color", "Urxvt">> >>

\* The first row of a table whose key is among hits (the keys that satisfy
\* the test), 0 when there is none: Iterator::find, the first matching arm of
\* a match, the first name of the loop that the response contains.
FirstRow(table, hits) ==
    IF \E i \in 1..Len(table) : table[i][1] \in hits
    THEN CHOOSE i \in 1..Len(table) :
            /\ table[i][1] \in hits
            /\ \A j \in 1..(i - 1) : table[j][1] \notin hits
    ELSE 0

\* The values TERM_PROGRAM and TERM take in the model: every value detect()
\* knows and one it does not know (TERM_PROGRAM unset, TERM=xterm-256color).
ProgramValues == {None} \cup {program_table[i][1] : i \in 1..Len(program_table)}
TermValues == {"xterm-256color"} \cup {term_table[i][1] : i \in 1..Len(term_table)}

\* What Mux::term_program() recovers from the multiplexer: nothing, or the
\* inner terminal's values.
MuxValues == { <<None, None>>, <<"xterm-kitty", None>>, <<None, "iTerm.app">> }

\* Option<String>::unwrap_or(std::env::var(..).unwrap_or_default())
OrEnv(recovered, envval) ==
    IF recovered # None THEN recovered ELSE IF envval # None THEN envval ELSE ""

\* Emulator::via_env: (term, program)
via_env(m, envTerm, envProgram) ==
    <<OrEnv(m[1], envTerm), OrEnv(m[2], envProgram)>>

\* ------------------------------------------------------------- the reply
\* The bursts a terminal's reply is made of: the six names of via_csi, the
\* graphics acknowledgment "\x1b_Gi=31;OK\x1b\\", the opening of a device
\* attributes reply "\x1b[?", the whole reply "\x1b[?62;4c", the pieces "4;",
\* "4c" and ";" of one, and a byte that is not UTF-8.
Chunks ==
    { S_kitty, S_Konsole, S_iTerm2, S_WezTerm, S_foot, S_ghostty,
      S_KgpOk \o <<ESC, 92>>,
      <<ESC>> \o S_Da1Open,
      <<ESC>> \o S_Da1Open \o <<54, 50, 59, 52, 99>>,
      <<52, 59>>, <<52, 99>>, <<59>>,
      <<255>> }

RECURSIVE SeqsUpTo(_, _)
SeqsUpTo(S, n) ==
    IF n = 0 THEN {<<>>}
    ELSE LET shorter == SeqsUpTo(S, n - 1)
         IN  shorter \cup {Append(q, x) : q \in shorter, x \in S}

Replies == SeqsUpTo(Chunks, MaxChunks)

\* ------------------------------------------------------------------ state
VARIABLES
    env,        \* the set of environment variables that exist, among Markers
    envTerm,    \* $TERM
    envProgram, \* $TERM_PROGRAM (None: unset)
    mux,        \* what Mux::term_program() returns: <<term, program>>
    tmux,       \* *TMUX: a terminal multiplexer is active
    raw,        \* raw input mode is on (as crossterm's enable_raw_mode and
                \* disable_raw_mode switch it)
    prior,      \* raw, as it was when detect() was called
    pc,         \* where detect() / via_csi() / read_until_da1() stands
    out,        \* the instructions written to stderr
    wire,       \* bursts of the reply the terminal has not delivered yet
    eof,        \* standard input ends (read yields 0) after the last burst
    stdin,      \* bytes delivered to standard input and not read yet
    rdbuf,      \* bytes the BufReader holds and has not handed out yet
    discarded,  \* bytes the BufReader held when it was dropped
    buf,        \* read_until_da1's buf
    elapsed,    \* seconds since timeout(..) was started
    outcome,    \* how timeout(.., read) ended: "elapsed", "failed", "ok"
    pending,    \* a read of standard input started by the probe is still
                \* outstanding
    csi,        \* the Result via_csi returned
    result,     \* the Emulator detect() returned
    \* ---- Emulator::move_lock
    windows,    \* cfg!(windows)
    role,       \* what each thread does: "move_lock" or "write"
    xy,         \* the coordinate each thread passes to move_lock
    owner,      \* the thread that holds the lock of stderr, 0 when free
    mpc,        \* where each thread stands
    wbuf,       \* the content of each thread's BufWriter
    stream,     \* what has reached stderr: <<thread, instruction>> pairs
    log,        \* what each move_lock call has done so far, in order
    cres,       \* what each call's callback returned (the local `result`)
    ret,        \* what each move_lock call returned
    \* ---- FilesSorter::sort
    sorter,     \* the FilesSorter
    sizes,      \* sizes: the entries <<directory name, size>> of the map
    input,      \* items, as passed to sort
    items,      \* items
    spc         \* "call" before sort, "done" after

detectVars == <<env, envTerm, envProgram, mux, tmux, raw, prior, pc, out, wire,
                eof, stdin, rdbuf, discarded, buf, elapsed, outcome, pending,
                csi, result>>
lockVars == <<windows, role, xy, owner, mpc, wbuf, stream, log, cres, ret>>
sortVars == <<sorter, sizes, input, items, spc>>

vars == <<detectVars, lockVars, sortVars>>

\* What the steps of detect() leave alone.
otherVars == <<lockVars, sortVars>>

envVars == <<env, envTerm, envProgram, mux, tmux>>
ioVars == <<out, wire, eof, stdin, rdbuf, discarded, buf, elapsed, outcome,
            pending>>

\* detect() is not called.
DetectIdle ==
    /\ env = {}
    /\ envTerm = None
    /\ envProgram = None
    /\ mux = <<None, None>>
    /\ raw = FALSE
    /\ prior = FALSE
    /\ pc = "idle"
    /\ out = <<>>
    /\ wire = <<>>
    /\ eof = FALSE
    /\ stdin = <<>>
    /\ rdbuf = <<>>
    /\ discarded = <<>>
    /\ buf = <<>>
    /\ elapsed = 0
    /\ outcome = None
    /\ pending = FALSE
    /\ csi = [kind |-> "none", val |-> [tag |-> None, adapters |-> <<>>]]
    /\ result = [tag |-> None, adapters |-> <<>>]

\* No thread is in move_lock.
LockIdle ==
    /\ windows = FALSE
    /\ role = <<>>
    /\ xy = <<>>
    /\ owner = 0
    /\ mpc = <<>>
    /\ wbuf = <<>>
    /\ stream = <<>>
    /\ log = <<>>
    /\ cres = <<>>
    /\ ret = <<>>

\* No sort is under way.
SortIdle ==
    /\ sorter = None
    /\ sizes = {}
    /\ input = <<>>
    /\ items = <<>>
    /\ spc = "idle"

\* detect() is about to be called; what it does not read is left open.
DetectEntry ==
    /\ raw \in BOOLEAN
    /\ prior = raw
    /\ pc = "detect"
    /\ out = <<>>
    /\ wire = <<>>
    /\ eof = FALSE
    /\ stdin = <<>>
    /\ rdbuf = <<>>
    /\ discarded = <<>>
    /\ buf = <<>>
    /\ elapsed = 0
    /\ outcome = None
    /\ pending = FALSE
    /\ csi = NotCalled
    /\ result = Named(None)

\* The multiplexer is active exactly when it recovered the inner terminal's
\* identity; detect() then returns before the probe.
Init ==
    /\ env \in SUBSET Markers
    /\ envTerm \in TermValues
    /\ envProgram \in ProgramValues
    /\ mux \in MuxValues
    /\ tmux = (mux # <<None, None>>)
    /\ DetectEntry
    /\ LockIdle
    /\ SortIdle

\* yazi_shared::env_exists
env_exists(name) == name \in env

\* ----------------------------------------------------------------- detect
\* detect(), up to the call of via_csi: the variant the environment decides,
\* or None when the probe is needed.
\* || in place of &&.
IsNeovim_Either == env_exists("NVIM_LOG_FILE") \/ env_exists("NVIM")

\* if env_exists("NVIM_LOG_FILE") && env_exists("NVIM")
IsNeovim == env_exists("NVIM_LOG_FILE") /\ env_exists("NVIM")

\* The match on term placed before the match on program.
ByIdentity_TermFirst(term, program) ==
    LET prog == FirstRow(program_table, {program})
        trm == FirstRow(term_table, {term})
    IN  IF trm # 0 THEN term_table[trm][2]
        ELSE IF prog # 0 THEN program_table[prog][2]
        ELSE None

\* The two match statements on program and term.
ByIdentity(term, program) ==
    LET prog == FirstRow(program_table, {program})
        trm == FirstRow(term_table, {term})
    IN  IF prog # 0 THEN program_table[prog][2]
        ELSE IF trm # 0 THEN term_table[trm][2]
        ELSE None

ByEnv ==
    LET var == FirstRow(vars_table, {v \in Markers : env_exists(v)})
        tp == via_env(mux, envTerm, envProgram)
    IN  IF IsNeovim THEN "Neovim"
        ELSE IF var # 0 THEN vars_table[var][2]
        ELSE ByIdentity(tp[1], tp[2])

\* detect() returns from one of its first three stages.
DetectByEnv ==
    /\ pc = "detect"
    /\ ByEnv # None
    /\ result' = Named(ByEnv)
    /\ pc' = "done"
    /\ UNCHANGED <<otherVars, envVars, raw, prior, ioVars, csi>>

\* detect() reaches Self::via_csi().
DetectCallsCsi ==
    /\ pc = "detect"
    /\ ByEnv = None
    /\ pc' = "enable"
    /\ UNCHANGED <<otherVars, envVars, raw, prior, ioVars, csi, result>>

\* ---------------------------------------------------------------- via_csi
\* enable_raw_mode() without the ?: a failure does not end via_csi.
EnableRawMode_ErrorIgnored ==
    /\ pc = "enable"
    /\ \E ok \in BOOLEAN : raw' = (IF ok THEN TRUE ELSE raw)
    /\ pc' = "write"
    /\ UNCHANGED <<otherVars, envVars, prior, ioVars, csi, result>>

\* enable_raw_mode()?  The release (defer!) is registered before it, so a
\* failure goes through the release too.
EnableRawMode ==
    /\ pc = "enable"
    /\ \E ok \in BOOLEAN :
          IF ok
          THEN /\ raw' = TRUE
               /\ pc' = "write"
               /\ csi' = csi
          ELSE /\ raw' = raw
               /\ pc' = "defer"
               /\ csi' = Err("enable_raw_mode")
    /\ UNCHANGED <<otherVars, envVars, prior, ioVars, result>>

\* crossterm's cursor instructions, as the bytes they write.
SavePosition == <<ESC, 55>>
RestorePosition == <<ESC, 56>>

\* The query: "\x1b[>q", "\x1b_Gi=31,s=1,v=1,a=q,t=d,f=24;AAAA\x1b\\", "\x1b[c"
S_Query ==
    <<ESC, 91, 62, 113>>
    \o <<ESC, 95, 71, 105, 61, 51, 49, 44, 115, 61, 49, 44, 118, 61, 49, 44,
         97, 61, 113, 44, 116, 61, 100, 44, 102, 61, 50, 52, 59, 65, 65, 65,
         65, ESC, 92>>
    \o <<ESC, 91, 99>>

\* s with every 0x1b doubled.
RECURSIVE EscapeEsc(_)
EscapeEsc(s) ==
    IF s = <<>> THEN <<>>
    ELSE (IF Head(s) = ESC THEN <<ESC, ESC>> ELSE <<Head(s)>>)
         \o EscapeEsc(Tail(s))

\* Mux::csi(s): s wrapped for passthrough ("\x1bPtmux;" .. "\x1b\\") when a
\* multiplexer is active, s unchanged otherwise.
Mux_csi(s, active) ==
    IF active
    THEN <<ESC, 80, 116, 109, 117, 120, 59>> \o EscapeEsc(s) \o <<ESC, 92>>
    ELSE s

\* The cursor restored before the query is printed.
QueryOutOf_RestoreFirst(active) ==
    <<SavePosition, RestorePosition, Mux_csi(S_Query, active)>>

\* The instructions execute!(..) writes while the multiplexer is active or not.
QueryOutOf(active) == <<SavePosition, Mux_csi(S_Query, active), RestorePosition>>

\* The instructions execute!(..) writes.
QueryOut == QueryOutOf(tmux)

\* execute!(LineWriter::new(stderr()), SavePosition, Print(..), RestorePosition)?
\* On success the terminal answers: the reply is whatever the terminal sends.
\* On failure any part of the instructions may have reached the stream.
WriteQuery ==
    /\ pc = "write"
    /\ \/ /\ out' = out \o QueryOut
          /\ \E w \in Replies : wire' = w
          /\ \E e \in BOOLEAN : eof' = e
          /\ pc' = "read"
          /\ csi' = csi
       \/ /\ \E k \in 0..(Len(QueryOut) - 1) : out' = out \o SubSeq(QueryOut, 1, k)
          /\ UNCHANGED <<wire, eof>>
          /\ pc' = "defer"
          /\ csi' = Err("execute")
    /\ UNCHANGED <<otherVars, envVars, raw, prior, stdin, rdbuf, discarded, buf,
                   elapsed, outcome, pending, result>>

\* The terminal delivers the next burst of its reply: at once, or so late
\* that the deadline of the read has been reached.  What is left in wire
\* when the read ends is delivered after via_csi has returned.
Arrive ==
    /\ wire # <<>>
    /\ pc = "read"
    /\ elapsed = 0 \/ elapsed >= TIMEOUT_SECS
    /\ stdin' = stdin \o Head(wire)
    /\ wire' = Tail(wire)
    /\ UNCHANGED <<otherVars, envVars, raw, prior, pc, out, eof, rdbuf, discarded,
                   buf, elapsed, outcome, pending, csi, result>>

\* ---------------------------------------------------------- read_until_da1
\* The content of b after its last 0x1b, all of b when it has none:
\* b.rsplitn(2, |&b| b == 0x1b).next()
AfterLastEsc(b) ==
    IF \E i \in 1..Len(b) : b[i] = ESC
    THEN LET last == CHOOSE i \in 1..Len(b) :
                        b[i] = ESC /\ \A j \in (i + 1)..Len(b) : b[j] # ESC
         IN  SubSeq(b, last + 1, Len(b))
    ELSE b

\* The segment after the last 0x1b not inspected.
IsDa1End_AnyEsc(b, c) == ~(c # 99 \/ ~(\E i \in 1..Len(b) : b[i] = ESC))

\* The loop breaks after pushing c onto b (b already holds c).
IsDa1End(b, c) ==
    /\ ~(c # 99 \/ ~(\E i \in 1..Len(b) : b[i] = ESC))
    /\ StartsWith(AfterLastEsc(b), S_Da1Open)

\* No byte is at hand: the BufReader is empty and nothing was delivered.
NoInput == rdbuf = <<>> /\ stdin = <<>>

\* stdin.read(&mut c) yields one byte: from the BufReader, which, when empty,
\* first takes everything standard input holds.
ReadByte ==
    /\ pc = "read"
    /\ ~NoInput
    /\ LET filled == IF rdbuf = <<>> THEN stdin ELSE rdbuf
           c == Head(filled)
           b == Append(buf, c)
           brk == IsDa1End(b, c)
       IN  /\ buf' = b
           /\ stdin' = IF rdbuf = <<>> THEN <<>> ELSE stdin
           /\ rdbuf' = IF brk THEN <<>> ELSE Tail(filled)
           /\ discarded' = IF brk THEN Tail(filled) ELSE discarded
           /\ pc' = IF brk THEN "classify" ELSE "read"
           /\ outcome' = IF brk THEN "ok" ELSE outcome
    /\ UNCHANGED <<otherVars, envVars, raw, prior, out, wire, eof, elapsed, pending,
                   csi, result>>

\* The error of the read propagated out of via_csi.
ReadEof_Propagates ==
    /\ pc = "read"
    /\ NoInput /\ wire = <<>> /\ eof
    /\ pc' = "defer"
    /\ outcome' = "failed"
    /\ csi' = Err("unexpected EOF")
    /\ UNCHANGED <<otherVars, envVars, raw, prior, out, wire, eof, stdin, rdbuf,
                   discarded, buf, elapsed, pending, result>>

\* A read of zero bytes that does not leave the loop.
ReadEof_Spins ==
    /\ pc = "read"
    /\ NoInput /\ wire = <<>> /\ eof
    /\ UNCHANGED vars

\* stdin.read(&mut c) yields 0: bail!("unexpected EOF"), Ok(Err(e)) is logged.
ReadEof ==
    /\ pc = "read"
    /\ NoInput /\ wire = <<>> /\ eof
    /\ pc' = "classify"
    /\ outcome' = "failed"
    /\ UNCHANGED <<otherVars, envVars, raw, prior, out, wire, eof, stdin, rdbuf,
                   discarded, buf, elapsed, pending, csi, result>>

\* A second passes while the read waits for input.
Tick ==
    /\ pc = "read"
    /\ NoInput /\ ~(wire = <<>> /\ eof)
    /\ elapsed < TIMEOUT_SECS
    /\ elapsed' = elapsed + 1
    /\ UNCHANGED <<otherVars, envVars, raw, prior, pc, out, wire, eof, stdin, rdbuf,
                   discarded, buf, outcome, pending, csi, result>>

\* The buffer dropped with the read future.
Timeout_DropsBuffer ==
    /\ pc = "read"
    /\ elapsed >= TIMEOUT_SECS
    /\ rdbuf = <<>>
    /\ pc' = "classify"
    /\ outcome' = "elapsed"
    /\ pending' = TRUE
    /\ buf' = <<>>
    /\ UNCHANGED <<otherVars, envVars, raw, prior, out, wire, eof, stdin, rdbuf,
                   discarded, elapsed, csi, result>>

\* timeout(Duration::from_secs(10), read) elapses: Err(e) is logged, the read
\* future is dropped.  timeout polls the read first, so it elapses only while
\* stdin.read is pending: the BufReader is empty and the read of standard
\* input that tokio's Stdin runs on a blocking thread has not completed.
\* Dropping the future does not cancel that read.
Timeout ==
    /\ pc = "read"
    /\ elapsed >= TIMEOUT_SECS
    /\ rdbuf = <<>>
    /\ pc' = "classify"
    /\ outcome' = "elapsed"
    /\ pending' = TRUE
    /\ UNCHANGED <<otherVars, envVars, raw, prior, out, wire, eof, stdin, rdbuf,
                   discarded, buf, elapsed, csi, result>>

\* The read left outstanding by a timeout completes: it takes what standard
\* input holds, and nobody receives it.
StaleRead ==
    /\ pending
    /\ pc # "read"
    /\ stdin # <<>>
    /\ discarded' = discarded \o stdin
    /\ stdin' = <<>>
    /\ pending' = FALSE
    /\ UNCHANGED <<otherVars, envVars, raw, prior, pc, out, wire, eof, rdbuf, buf,
                   elapsed, outcome, csi, result>>

\* ----------------------------------------------------- via_csi, continued
names ==
    << <<S_kitty, "Kitty">>,
       <<S_Konsole, "Konsole">>,
       <<S_iTerm2, "Iterm2">>,
       <<S_WezTerm, "WezTerm">>,
       <<S_foot, "Foot">>,
       <<S_ghostty, "Ghostty">> >>

\* The names the response contains.
NamesIn(resp) ==
    {names[i][1] : i \in {k \in 1..Len(names) : Contains(resp, names[k][1])}}

\* The two pushes in the other order.
Adapters_SixelFirst(resp) ==
    (IF \E i \in 1..Len(SixelMarks) : Contains(resp, SixelMarks[i])
     THEN <<"Sixel">> ELSE <<>>)
    \o (IF Contains(resp, S_KgpOk) THEN <<"KgpOld">> ELSE <<>>)

\* The two capability signals, in the order they are pushed.
Adapters(resp) ==
    (IF Contains(resp, S_KgpOk) THEN <<"KgpOld">> ELSE <<>>)
    \o (IF \E i \in 1..Len(SixelMarks) : Contains(resp, SixelMarks[i])
        THEN <<"Sixel">> ELSE <<>>)

\* The capability signals inspected before the names.
Classify_FlagsFirst(resp) ==
    LET n == FirstRow(names, NamesIn(resp))
    IN  IF Adapters(resp) # <<>> THEN Unknown(Adapters(resp))
        ELSE IF n # 0 THEN Named(names[n][2])
        ELSE Unknown(<<>>)

\* What via_csi makes of the response.
Classify(resp) ==
    LET n == FirstRow(names, NamesIn(resp))
    IN  IF n # 0 THEN Named(names[n][2]) ELSE Unknown(Adapters(resp))

\* What read_until_da1 returns: String::from_utf8_lossy(&buf).into_owned()
Resp == from_utf8_lossy(buf)

\* let resp = block_on(read_until_da1()); ... Ok(..)
ClassifyResp ==
    /\ pc = "classify"
    /\ csi' = Ok(Classify(Resp))
    /\ pc' = "defer"
    /\ UNCHANGED <<otherVars, envVars, raw, prior, ioVars, result>>

\* The release placed at the end of the function body instead of in defer!.
Defer_OnlyOnOk ==
    /\ pc = "defer"
    /\ raw' = IF csi.kind = "ok" THEN FALSE ELSE raw
    /\ pc' = "unwrap"
    /\ UNCHANGED <<otherVars, envVars, prior, ioVars, csi, result>>

\* defer! { disable_raw_mode().ok(); } runs as via_csi returns: raw mode is
\* switched off, whatever it was before the call.
Defer ==
    /\ pc = "defer"
    /\ raw' = FALSE
    /\ pc' = "unwrap"
    /\ UNCHANGED <<otherVars, envVars, prior, ioVars, csi, result>>

\* Self::via_csi().unwrap_or(Self::Unknown(vec![]))
DetectUnwrap ==
    /\ pc = "unwrap"
    /\ result' = unwrap_or(csi, Unknown(<<>>))
    /\ pc' = "done"
    /\ UNCHANGED <<otherVars, envVars, raw, prior, ioVars, csi>>

Next ==
    \/ DetectByEnv
    \/ DetectCallsCsi
    \/ EnableRawMode
    \/ WriteQuery
    \/ Arrive
    \/ ReadByte
    \/ ReadEof
    \/ Tick
    \/ Timeout
    \/ StaleRead
    \/ ClassifyResp
    \/ Defer
    \/ DetectUnwrap

Spec == Init /\ [][Next]_vars

\* The probe alone: detect() in an environment that decides nothing.
ProbeInit ==
    /\ Init
    /\ env = {}
    /\ mux = <<None, None>>
    /\ envTerm = "xterm-256color"
    /\ envProgram = None

\* The probe, under a multiplexer that recovered nothing or under none.
MuxProbeInit ==
    /\ env = {}
    /\ mux = <<None, None>>
    /\ envTerm = "xterm-256color"
    /\ envProgram = None
    /\ tmux \in BOOLEAN
    /\ DetectEntry
    /\ raw = FALSE
    /\ LockIdle
    /\ SortIdle

ProbeNext ==
    \/ DetectCallsCsi
    \/ EnableRawMode
    \/ WriteQuery
    \/ Arrive
    \/ ReadByte
    \/ ReadEof
    \/ Tick
    \/ Timeout
    \/ StaleRead
    \/ ClassifyResp
    \/ Defer
    \/ DetectUnwrap

\* The probe without assumptions on its scheduling.
ProbeSpec == MuxProbeInit /\ [][ProbeNext]_vars

\* The read loop is polled while it can make a step and the clock advances:
\* block_on drives the future, the timer of timeout(..) runs.
FairProbe ==
    /\ ProbeInit /\ [][ProbeNext]_vars
    /\ WF_vars(ReadByte) /\ WF_vars(ReadEof) /\ WF_vars(Tick) /\ WF_vars(Timeout)

\* ================================================================ move_lock
\* The threads of the process that write to stderr.
Threads == {1, 2}

\* The coordinates passed to move_lock.
Coords == {<<0, 0>>, <<4, 11>>}

\* A u16 below 100 in decimal digits.
Dec(n) == IF n < 10 THEN <<48 + n>> ELSE <<48 + (n \div 10), 48 + (n % 10)>>

\* crossterm's cursor instructions, as the bytes they write.
MoveTo(x, y) == <<ESC, 91>> \o Dec(y + 1) \o <<59>> \o Dec(x + 1) \o <<72>>
Show == <<ESC, 91, 63, 50, 53, 104>>
Hide == <<ESC, 91, 63, 50, 53, 108>>

\* What a callback writes, and what a writer outside of move_lock writes.
Drawn == <<42>>
Other == <<33>>

\* Result<T> of the callback and of move_lock.
CbResults == {[kind |-> "ok", val |-> "drawn"], [kind |-> "err", val |-> "cb"]}
IoError == [kind |-> "err", val |-> "io"]
NoResult == [kind |-> "none", val |-> None]

\* *TMUX || cfg!(windows)
Drift == tmux \/ windows

\* What a call has done: an instruction put into the BufWriter, a flush by
\* move_lock, the callback invoked, a flush by the callback, the pause.
Queued(i) == [ev |-> "queue", what |-> i]
Flushed == [ev |-> "flush", what |-> <<>>]
Called == [ev |-> "cb", what |-> <<>>]
CbFlushed == [ev |-> "cbflush", what |-> <<>>]
Slept == [ev |-> "sleep", what |-> <<>>]

QueuedAll(is) == [i \in 1..Len(is) |-> Queued(is[i])]

\* The instructions w as they reach stderr from thread t.
ToStream(t, w) == [i \in 1..Len(w) |-> <<t, w[i]>>]

\* BufWriter::new(stderr()): the lock of stderr is not taken for the call.
Lock_NotHeld(t) ==
    /\ role[t] = "move_lock"
    /\ mpc[t] = "call"
    /\ mpc' = [mpc EXCEPT ![t] = IF Drift THEN "move1" ELSE "move"]
    /\ UNCHANGED <<detectVars, sortVars, windows, role, xy, owner, wbuf, stream,
                   log, cres, ret>>

\* let mut buf = BufWriter::new(stderr().lock()): waits until no other thread
\* holds the lock of stderr.
Lock(t) ==
    /\ role[t] = "move_lock"
    /\ mpc[t] = "call"
    /\ owner = 0
    /\ owner' = t
    /\ mpc' = [mpc EXCEPT ![t] = IF Drift THEN "move1" ELSE "move"]
    /\ UNCHANGED <<detectVars, sortVars, windows, role, xy, wbuf, stream, log,
                   cres, ret>>

\* What the three execute!(..) of the drift-prone path write.
MoveInstrs(t, at) ==
    IF at = "move1"
    THEN <<SavePosition, MoveTo(xy[t][1], xy[t][2]), Show>>
    ELSE <<MoveTo(xy[t][1], xy[t][2]), Show>>

\* The third execute!(..) left out.
AfterMove_Twice(at) ==
    CASE at = "move1" -> "move2"
      [] OTHER -> "cb"

\* Where the call stands after an execute!(..) of the drift-prone path.
AfterMove(at) ==
    CASE at = "move1" -> "move2"
      [] at = "move2" -> "move3"
      [] OTHER -> "cb"

\* execute!(buf, SavePosition, MoveTo(x, y), Show)?, execute!(buf, MoveTo(x, y),
\* Show)? twice: the instructions are queued and the BufWriter is flushed;
\* thread::sleep follows the third.  A failure returns the error.
ExecuteMove(t) ==
    /\ mpc[t] \in {"move1", "move2", "move3"}
    /\ LET instrs == MoveInstrs(t, mpc[t])
           w == wbuf[t] \o instrs
           next == AfterMove(mpc[t])
       IN  \/ /\ stream' = stream \o ToStream(t, w)
              /\ wbuf' = [wbuf EXCEPT ![t] = <<>>]
              /\ log' = [log EXCEPT ![t] =
                            @ \o QueuedAll(instrs) \o <<Flushed>>
                              \o (IF next = "cb" THEN <<Slept>> ELSE <<>>)]
              /\ mpc' = [mpc EXCEPT ![t] = next]
              /\ ret' = ret
           \/ /\ wbuf' = [wbuf EXCEPT ![t] = w]
              /\ log' = [log EXCEPT ![t] = @ \o QueuedAll(instrs)]
              /\ mpc' = [mpc EXCEPT ![t] = "drop"]
              /\ ret' = [ret EXCEPT ![t] = IoError]
              /\ stream' = stream
    /\ UNCHANGED <<detectVars, sortVars, windows, role, xy, owner, cres>>

\* queue!(buf, SavePosition, MoveTo(x, y))?
QueueMove(t) ==
    /\ mpc[t] = "move"
    /\ LET instrs == <<SavePosition, MoveTo(xy[t][1], xy[t][2])>>
       IN  \/ /\ wbuf' = [wbuf EXCEPT ![t] = @ \o instrs]
              /\ log' = [log EXCEPT ![t] = @ \o QueuedAll(instrs)]
              /\ mpc' = [mpc EXCEPT ![t] = "cb"]
              /\ ret' = ret
           \/ /\ mpc' = [mpc EXCEPT ![t] = "drop"]
              /\ ret' = [ret EXCEPT ![t] = IoError]
              /\ UNCHANGED <<wbuf, log>>
    /\ UNCHANGED <<detectVars, sortVars, windows, role, xy, owner, stream, cres>>

\* let result = cb(&mut buf): the callback writes through the BufWriter, may
\* flush it, and returns Ok or Err.
Callback(t) ==
    /\ mpc[t] = "cb"
    /\ \E r \in CbResults, fl \in BOOLEAN :
          /\ cres' = [cres EXCEPT ![t] = r]
          /\ IF fl
             THEN /\ stream' = stream \o ToStream(t, wbuf[t] \o <<Drawn>>)
                  /\ wbuf' = [wbuf EXCEPT ![t] = <<>>]
                  /\ log' = [log EXCEPT ![t] = @ \o <<Called, CbFlushed>>]
             ELSE /\ stream' = stream
                  /\ wbuf' = [wbuf EXCEPT ![t] = @ \o <<Drawn>>]
                  /\ log' = [log EXCEPT ![t] = Append(@, Called)]
    /\ mpc' = [mpc EXCEPT ![t] = "restore"]
    /\ UNCHANGED <<detectVars, sortVars, windows, role, xy, owner, ret>>

\* The instructions that restore the cursor.
RestoreInstrs == IF Drift THEN <<Hide, RestorePosition>> ELSE <<RestorePosition>>

\* let result = cb(&mut buf)?: an error of the callback returns at once.
Restore_OnlyOnOk(t) ==
    /\ mpc[t] = "restore"
    /\ IF cres[t].kind = "err"
       THEN /\ mpc' = [mpc EXCEPT ![t] = "drop"]
            /\ ret' = [ret EXCEPT ![t] = cres[t]]
            /\ UNCHANGED <<wbuf, log>>
       ELSE /\ wbuf' = [wbuf EXCEPT ![t] = @ \o RestoreInstrs]
            /\ log' = [log EXCEPT ![t] = @ \o QueuedAll(RestoreInstrs)]
            /\ mpc' = [mpc EXCEPT ![t] = "flush"]
            /\ ret' = ret
    /\ UNCHANGED <<detectVars, sortVars, windows, role, xy, owner, stream, cres>>

\* queue!(buf, Hide, RestorePosition)? or queue!(buf, RestorePosition)?
Restore(t) ==
    /\ mpc[t] = "restore"
    /\ \/ /\ wbuf' = [wbuf EXCEPT ![t] = @ \o RestoreInstrs]
          /\ log' = [log EXCEPT ![t] = @ \o QueuedAll(RestoreInstrs)]
          /\ mpc' = [mpc EXCEPT ![t] = "flush"]
          /\ ret' = ret
       \/ /\ mpc' = [mpc EXCEPT ![t] = "drop"]
          /\ ret' = [ret EXCEPT ![t] = IoError]
          /\ UNCHANGED <<wbuf, log>>
    /\ UNCHANGED <<detectVars, sortVars, windows, role, xy, owner, stream, cres>>

\* The final flush left to the drop of the BufWriter.
Flush_LeftToDrop(t) ==
    /\ mpc[t] = "flush"
    /\ mpc' = [mpc EXCEPT ![t] = "drop"]
    /\ ret' = [ret EXCEPT ![t] = cres[t]]
    /\ UNCHANGED <<detectVars, sortVars, windows, role, xy, owner, wbuf, stream,
                   log, cres>>

\* buf.flush()?; result
Flush(t) ==
    /\ mpc[t] = "flush"
    /\ \/ /\ stream' = stream \o ToStream(t, wbuf[t])
          /\ wbuf' = [wbuf EXCEPT ![t] = <<>>]
          /\ log' = [log EXCEPT ![t] = Append(@, Flushed)]
          /\ ret' = [ret EXCEPT ![t] = cres[t]]
       \/ /\ ret' = [ret EXCEPT ![t] = IoError]
          /\ UNCHANGED <<wbuf, stream, log>>
    /\ mpc' = [mpc EXCEPT ![t] = "drop"]
    /\ UNCHANGED <<detectVars, sortVars, windows, role, xy, owner, cres>>

\* move_lock returns: buf goes out of scope.  The BufWriter writes what it
\* still holds, ignoring errors, and the lock of stderr is released.
Drop(t) ==
    /\ mpc[t] = "drop"
    /\ \/ stream' = stream \o ToStream(t, wbuf[t])
       \/ stream' = stream
    /\ wbuf' = [wbuf EXCEPT ![t] = <<>>]
    /\ owner' = IF owner = t THEN 0 ELSE owner
    /\ mpc' = [mpc EXCEPT ![t] = "done"]
    /\ UNCHANGED <<detectVars, sortVars, windows, role, xy, log, cres, ret>>

\* A write to stderr() outside of move_lock: Stderr takes its lock for the
\* write.
DirectWrite(t) ==
    /\ role[t] = "write"
    /\ mpc[t] = "call"
    /\ owner = 0
    /\ stream' = Append(stream, <<t, Other>>)
    /\ mpc' = [mpc EXCEPT ![t] = "done"]
    /\ UNCHANGED <<detectVars, sortVars, windows, role, xy, owner, wbuf, log,
                   cres, ret>>

\* Thread 1 calls move_lock; thread 2 calls it too or writes to stderr.
LockInit ==
    /\ DetectIdle
    /\ SortIdle
    /\ tmux \in BOOLEAN
    /\ windows \in BOOLEAN
    /\ role \in {[t \in Threads |-> IF t = 1 THEN "move_lock" ELSE r] :
                    r \in {"move_lock", "write"}}
    /\ xy \in [Threads -> Coords]
    /\ owner = 0
    /\ mpc = [t \in Threads |-> "call"]
    /\ wbuf = [t \in Threads |-> <<>>]
    /\ stream = <<>>
    /\ log = [t \in Threads |-> <<>>]
    /\ cres = [t \in Threads |-> NoResult]
    /\ ret = [t \in Threads |-> NoResult]

LockNext ==
    \E t \in Threads :
        \/ Lock(t)
        \/ ExecuteMove(t)
        \/ QueueMove(t)
        \/ Callback(t)
        \/ Restore(t)
        \/ Flush(t)
        \/ Drop(t)
        \/ DirectWrite(t)

LockSpec == LockInit /\ [][LockNext]_vars

\* ============================================================== FilesSorter
\* std::cmp::Ordering
Reverse(o) ==
    CASE o = "Less" -> "Greater"
      [] o = "Greater" -> "Less"
      [] OTHER -> "Equal"

\* a.cmp(&b) of two integers, and of two byte strings.
CmpInt(a, b) == IF a < b THEN "Less" ELSE IF a > b THEN "Greater" ELSE "Equal"

RECURSIVE CmpBytes(_, _)
CmpBytes(a, b) ==
    IF a = <<>> /\ b = <<>> THEN "Equal"
    ELSE IF a = <<>> THEN "Less"
    ELSE IF b = <<>> THEN "Greater"
    ELSE IF Head(a) # Head(b) THEN CmpInt(Head(a), Head(b))
    ELSE CmpBytes(Tail(a), Tail(b))

to_ascii_uppercase(s) ==
    [i \in 1..Len(s) |-> IF s[i] >= 97 /\ s[i] <= 122 THEN s[i] - 32 ELSE s[i]]
to_ascii_lowercase(s) ==
    [i \in 1..Len(s) |-> IF s[i] >= 65 /\ s[i] <= 90 THEN s[i] + 32 ELSE s[i]]

\* Transliterator::transliterate: a letter outside of ASCII becomes its ASCII
\* counterpart (here U+00E9, encoded 0xC3 0xA9, becomes "e").
RECURSIVE transliterate(_)
transliterate(s) ==
    IF s = <<>> THEN <<>>
    ELSE IF Len(s) >= 2 /\ s[1] = 195 /\ s[2] = 169
         THEN <<101>> \o transliterate(SubSeq(s, 3, Len(s)))
         ELSE <<Head(s)>> \o transliterate(Tail(s))

IsDigit(c) == c >= 48 /\ c <= 57

\* The length of the run of digits s begins with, and its value.
RECURSIVE DigitRun(_)
DigitRun(s) == IF s # <<>> /\ IsDigit(Head(s)) THEN 1 + DigitRun(Tail(s)) ELSE 0

RECURSIVE DigitValue(_, _)
DigitValue(s, n) ==
    IF n = 0 THEN 0 ELSE DigitValue(s, n - 1) * 10 + (s[n] - 48)

\* natsort(left, right, insensitive): runs of digits compare as numbers,
\* other bytes one by one, letters without regard to case when insensitive.
RECURSIVE natsort(_, _, _)
natsort(left, right, insensitive) ==
    IF left = <<>> \/ right = <<>> THEN CmpInt(Len(left), Len(right))
    ELSE IF IsDigit(Head(left)) /\ IsDigit(Head(right))
    THEN LET nl == DigitRun(left)
             nr == DigitRun(right)
             o == CmpInt(DigitValue(left, nl), DigitValue(right, nr))
         IN  IF o # "Equal" THEN o
             ELSE natsort(SubSeq(left, nl + 1, Len(left)),
                          SubSeq(right, nr + 1, Len(right)), insensitive)
    ELSE LET l == IF insensitive THEN to_ascii_lowercase(<<Head(left)>>)[1]
                  ELSE Head(left)
             r == IF insensitive THEN to_ascii_lowercase(<<Head(right)>>)[1]
                  ELSE Head(right)
         IN  IF l # r THEN CmpInt(l, r)
             ELSE natsort(Tail(left), Tail(right), insensitive)

\* The entries of a directory: name, is_dir, mtime and btime (0 when None),
\* extension (<<0>> when None, <<1>> \o e when Some(e)), len.
File(name, is_dir, mtime, btime, ext, len) ==
    [name |-> name, is_dir |-> is_dir, mtime |-> mtime, btime |-> btime,
     ext |-> ext, len |-> len]

Files ==
    { File(<<98, 46, 114, 115>>, TRUE, 2, 1, <<1, 114, 115>>, 4),
      File(<<195, 169>>, TRUE, 1, 2, <<0>>, 4),
      File(<<97, 46, 82, 83>>, FALSE, 2, 2, <<1, 82, 83>>, 9),
      File(<<66, 46, 114, 115>>, FALSE, 1, 1, <<1, 114, 115>>, 0),
      File(<<97, 49, 48>>, FALSE, 0, 2, <<0>>, 9),
      File(<<97, 57>>, FALSE, 2, 0, <<0>>, 4) }

\* The lists of distinct entries of at most n entries.
RECURSIVE ListsUpTo(_)
ListsUpTo(n) ==
    IF n = 0 THEN {<<>>}
    ELSE LET shorter == ListsUpTo(n - 1)
         IN  shorter \cup
             UNION {{Append(q, f) : f \in Files \ {q[i] : i \in 1..Len(q)}} :
                        q \in {l \in shorter : Len(l) = n - 1}}

\* enum SortBy
SortBys ==
    {"None", "Mtime", "Btime", "Extension", "Alphabetical", "Natural", "Size",
     "Random"}

\* struct FilesSorter
Sorters ==
    [by : SortBys, sensitive : BOOLEAN, reverse : BOOLEAN, dir_first : BOOLEAN,
     translit : BOOLEAN]

\* sizes: no size was computed, or the one of the directory "b.rs".
SizeMaps == {{}, {<<(<<98, 46, 114, 115>>), 7>>}}

\* sizes.get(urn) is Some, and its value.
HasSize(name) == \E e \in sizes : e[1] = name
SizeGet(name) == (CHOOSE e \in sizes : e[1] = name)[2]

\* a.is_dir().cmp(&b.is_dir()): the arguments exchanged.
promote_Swapped(a, b) ==
    IF sorter.dir_first
    THEN CmpInt(IF a.is_dir THEN 1 ELSE 0, IF b.is_dir THEN 1 ELSE 0)
    ELSE "Equal"

\* fn promote: b.is_dir().cmp(&a.is_dir()) when dir_first, false < true.
promote(a, b) ==
    IF sorter.dir_first
    THEN CmpInt(IF b.is_dir THEN 1 ELSE 0, IF a.is_dir THEN 1 ELSE 0)
    ELSE "Equal"

\* fn cmp, given a.cmp(&b): b.cmp(&a) is its reverse.
cmp(a_cmp_b, prom) ==
    IF prom # "Equal" THEN prom
    ELSE IF sorter.reverse THEN Reverse(a_cmp_b) ELSE a_cmp_b

\* The closure by_alphabetical.
by_alphabetical(a, b) ==
    IF sorter.sensitive
    THEN cmp(CmpBytes(a.name, b.name), promote(a, b))
    ELSE cmp(CmpBytes(to_ascii_uppercase(a.name), to_ascii_uppercase(b.name)),
             promote(a, b))

\* aa.unwrap_or(a.len): the computed size of a directory, else len.
SizeOf(a) ==
    IF a.is_dir /\ HasSize(a.name) THEN SizeGet(a.name) ELSE a.len

\* The first comparison of the closures of Mtime, Btime, Extension and Size.
ByKey(a, b) ==
    CASE sorter.by = "Mtime" -> cmp(CmpInt(a.mtime, b.mtime), promote(a, b))
      [] sorter.by = "Btime" -> cmp(CmpInt(a.btime, b.btime), promote(a, b))
      [] sorter.by = "Extension" ->
            IF sorter.sensitive
            THEN cmp(CmpBytes(a.ext, b.ext), promote(a, b))
            ELSE cmp(CmpBytes(to_ascii_lowercase(a.ext), to_ascii_lowercase(b.ext)),
                     promote(a, b))
      [] OTHER -> cmp(CmpInt(SizeOf(a), SizeOf(b)), promote(a, b))

\* The closures passed to sort_unstable_by for Mtime, Btime, Extension,
\* Alphabetical and Size.
Compare(a, b) ==
    IF sorter.by = "Alphabetical" THEN by_alphabetical(a, b)
    ELSE LET ord == ByKey(a, b)
         IN  IF ord = "Equal" THEN by_alphabetical(a, b) ELSE ord

\* The closure of sort_naturally.
CompareNaturally(a, b) ==
    LET prom == promote(a, b)
        ordering == IF sorter.translit
                    THEN natsort(transliterate(a.name), transliterate(b.name),
                                 ~sorter.sensitive)
                    ELSE natsort(a.name, b.name, ~sorter.sensitive)
    IN  IF prom # "Equal" THEN prom
        ELSE IF sorter.reverse THEN Reverse(ordering) ELSE ordering

\* The orders of the indices 1..n.
Orders(n) == {p \in [1..n -> 1..n] : \A i, j \in 1..n : i # j => p[i] # p[j]}

\* The items in the order p.
Picked(p) == [i \in 1..Len(items) |-> items[p[i]]]

\* if items.is_empty() { return; }
SortEmpty ==
    /\ spc = "call"
    /\ items = <<>>
    /\ spc' = "done"
    /\ UNCHANGED <<detectVars, lockVars, sorter, sizes, input, items>>

\* SortBy::None => {}
SortNone ==
    /\ spc = "call"
    /\ items # <<>>
    /\ sorter.by = "None"
    /\ spc' = "done"
    /\ UNCHANGED <<detectVars, lockVars, sorter, sizes, input, items>>

\* items.sort_unstable_by(..): the items end in an order in which no item
\* compares Greater than a later one; items that compare Equal in any order.
SortByKey ==
    /\ spc = "call"
    /\ items # <<>>
    /\ sorter.by \in {"Mtime", "Btime", "Extension", "Alphabetical", "Size"}
    /\ \E p \in Orders(Len(items)) :
          /\ \A i, j \in 1..Len(items) :
                i < j => Compare(items[p[i]], items[p[j]]) # "Greater"
          /\ items' = Picked(p)
    /\ spc' = "done"
    /\ UNCHANGED <<detectVars, lockVars, sorter, sizes, input>>

\* self.sort_naturally(items): the indices are sorted, then every item is
\* taken from its index.
SortNaturally ==
    /\ spc = "call"
    /\ items # <<>>
    /\ sorter.by = "Natural"
    /\ \E indices \in Orders(Len(items)) :
          /\ \A i, j \in 1..Len(items) :
                i < j => CompareNaturally(items[indices[i]], items[indices[j]])
                            # "Greater"
          /\ items' = Picked(indices)
    /\ spc' = "done"
    /\ UNCHANGED <<detectVars, lockVars, sorter, sizes, input>>

\* SortBy::Random: the comparison draws fresh numbers on every call, so
\* within a group any order can result; promote is still consulted first.
SortRandom ==
    /\ spc = "call"
    /\ items # <<>>
    /\ sorter.by = "Random"
    /\ \E p \in Orders(Len(items)) :
          /\ \A i, j \in 1..Len(items) :
                i < j => promote(items[p[i]], items[p[j]]) # "Greater"
          /\ items' = Picked(p)
    /\ spc' = "done"
    /\ UNCHANGED <<detectVars, lockVars, sorter, sizes, input>>

SortInit ==
    /\ DetectIdle
    /\ LockIdle
    /\ tmux = FALSE
    /\ sorter \in Sorters
    /\ sizes \in SizeMaps
    /\ input \in ListsUpTo(MaxItems)
    /\ items = input
    /\ spc = "call"

SortNext ==
    \/ SortEmpty
    \/ SortNone
    \/ SortByKey
    \/ SortNaturally
    \/ SortRandom

SortSpec == SortInit /\ [][SortNext]_vars

\* ================================================================= claims
\* via_csi has returned to detect().
Returned == pc \in {"unwrap", "done"} /\ csi.kind # "none"

\* The variants of enum Emulator.
EmulatorTags ==
    {"Unknown", "Kitty", "Konsole", "Iterm2", "WezTerm", "Foot", "Ghostty",
     "Microsoft", "Rio", "BlackBox", "VSCode", "Tabby", "Hyper", "Mintty",
     "Neovim", "Apple", "Urxvt"}

C2_PriorModeRestored == Returned => raw = prior

\* C3: detect() never fails and yields one result: before it has returned
\* there is no result; when it has returned the result is one variant of
\* Emulator, also when via_csi returned an error, and then it is Unknown with
\* no adapter.
C3_DetectInfallible ==
    /\ pc = "done" => /\ result.tag \in EmulatorTags
                      /\ csi.kind = "err" => result = Unknown(<<>>)
    /\ pc # "done" => result = Named(None)

\* C3 witness: the query write failed and detect() returned Unknown([]).
C3_Witness ==
    /\ pc = "done" /\ csi = Err("execute") /\ Len(out) < Len(QueryOut)
    /\ result = Unknown(<<>>)

\* C4: via_csi returns an error only if raw-mode entry or the query write
\* failed: it returns Ok exactly when the whole query was written, whatever
\* the reply and however the read ended, and an error only when no read was
\* made.
C4_ErrorOnlyFromSetup ==
    Returned => /\ csi.kind = "ok" <=> out = QueryOut
                /\ csi.kind = "err" => outcome = None /\ buf = <<>>
                /\ outcome # None => csi.kind = "ok"

\* C4 witness: the read ended by end of input on an empty reply and via_csi
\* returned Ok.
C4_Witness ==
    Returned /\ outcome = "failed" /\ buf = <<>> /\ csi = Ok(Unknown(<<>>))

\* C5: detect() returns Neovim if and only if NVIM_LOG_FILE and NVIM both
\* exist, whatever the other markers, TERM_PROGRAM and TERM are.
C5_NeovimIffBothMarkers ==
    pc = "done" =>
        (result = Named("Neovim") <=> ("NVIM_LOG_FILE" \in env /\ "NVIM" \in env))

\* C5 witness: both editor markers, a direct marker and a known TERM_PROGRAM
\* are set and the result is Neovim.
C5_Witness ==
    /\ pc = "done" /\ result = Named("Neovim")
    /\ "KITTY_WINDOW_ID" \in env /\ envProgram = "WezTerm" /\ envTerm = "foot"

\* The direct markers and their variants in the declared order.
DeclaredOrder ==
    <<"KITTY_WINDOW_ID", "KONSOLE_VERSION", "ITERM_SESSION_ID",
      "WEZTERM_EXECUTABLE", "GHOSTTY_RESOURCES_DIR", "WT_Session",
      "VSCODE_INJECTION", "TABBY_CONFIG_DIRECTORY">>
DeclaredVariant ==
    <<"Kitty", "Konsole", "Iterm2", "WezTerm", "Ghostty", "Microsoft", "VSCode",
      "Tabby">>

BothEditorMarkers == {"NVIM_LOG_FILE", "NVIM"} \subseteq env

\* C6: when not both editor markers exist and some direct marker exists,
\* detect() returns the variant of the first existing marker of the declared
\* order, whatever TERM and TERM_PROGRAM are.
C6_FirstDirectMarkerWins ==
    (pc = "done" /\ ~BothEditorMarkers) =>
        \A i \in 1..8 :
            (DeclaredOrder[i] \in env /\ \A j \in 1..(i - 1) : DeclaredOrder[j] \notin env)
                => result = Named(DeclaredVariant[i])

\* C6 witness: WT_Session and TABBY_CONFIG_DIRECTORY exist, one editor marker
\* too, TERM_PROGRAM and TERM name other terminals, and the result is
\* Microsoft.
C6_Witness ==
    /\ pc = "done" /\ env = {"NVIM", "WT_Session", "TABBY_CONFIG_DIRECTORY"}
    /\ envProgram = "iTerm.app" /\ envTerm = "xterm-kitty"
    /\ result = Named("Microsoft")

\* No marker decides: not both editor markers, no direct marker.
NoMarkerMatch == ~BothEditorMarkers /\ env \cap DirectMarkers = {}

\* C7: when no marker decides, the program identity of via_env decides if it
\* is a known value, whatever the terminal type is; otherwise the terminal
\* type decides if it is a known value; via_csi is called only if neither is
\* known, and then it is called.
C7_ProgramBeforeTerm ==
    LET tp == via_env(mux, envTerm, envProgram)
        term == tp[1]
        program == tp[2]
        knownP == \E i \in 1..Len(program_table) : program_table[i][1] = program
        knownT == \E i \in 1..Len(term_table) : term_table[i][1] = term
        probed == csi.kind # "none" \/ pc \notin {"detect", "done"}
    IN  NoMarkerMatch =>
          /\ (pc = "done" /\ knownP) =>
                \A i \in 1..Len(program_table) :
                    program_table[i][1] = program => result = Named(program_table[i][2])
          /\ (pc = "done" /\ ~knownP /\ knownT) =>
                \A i \in 1..Len(term_table) :
                    term_table[i][1] = term => result = Named(term_table[i][2])
          /\ (pc = "done" /\ program = "iTerm.app") => result = Named("Iterm2")
          /\ (pc = "done" /\ ~knownP /\ term = "xterm-kitty") => result = Named("Kitty")
          /\ probed => ~knownP /\ ~knownT
          /\ (pc = "done" /\ ~knownP /\ ~knownT) => probed

\* C7 witness: the program identity is iTerm.app (recovered from the
\* multiplexer), the terminal type is foot, and the result is Iterm2.
C7_Witness ==
    /\ pc = "done" /\ NoMarkerMatch
    /\ mux = <<None, "iTerm.app">> /\ envProgram = "mintty" /\ envTerm = "foot"
    /\ result = Named("Iterm2")

\* The response read_until_da1 returned holds the byte string t.
RespHas(t) == Contains(buf, t)

\* C8, as stated: a response that holds "WezTerm" anywhere classifies as
\* WezTerm, whatever else it holds.
C8_WezTermAnywhere ==
    (Returned /\ outcome # None /\ RespHas(S_WezTerm)) => csi = Ok(Named("WezTerm"))

\* C8, amended: a response that holds "WezTerm" and none of "kitty",
\* "Konsole", "iTerm2" (the names declared before it) classifies as WezTerm,
\* whatever else (the names "foot" and "ghostty", the acknowledgment, raster
\* marks, bytes that are not UTF-8) it holds.
C8_WezTermUnlessEarlierName ==
    (/\ Returned /\ outcome # None /\ RespHas(S_WezTerm)
     /\ ~RespHas(S_kitty) /\ ~RespHas(S_Konsole) /\ ~RespHas(S_iTerm2))
        => csi = Ok(Named("WezTerm"))

\* C8 witness: the response holds the acknowledgment and then "WezTerm" and
\* classifies as WezTerm.
C8_Witness ==
    Returned /\ RespHas(S_KgpOk) /\ RespHas(S_WezTerm) /\ csi = Ok(Named("WezTerm"))

\* C9: a response that holds none of the six names classifies as Unknown with
\* KgpOld iff it holds ESC "_Gi=31;OK", followed by Sixel iff it holds one of
\* "?4;", "?4c", ";4;", ";4c".
C9_UnknownAdapters ==
    LET named == \E n \in {S_kitty, S_Konsole, S_iTerm2, S_WezTerm, S_foot, S_ghostty} :
                    RespHas(n)
        ack == RespHas(<<27, 95, 71, 105, 61, 51, 49, 59, 79, 75>>)
        raster == \/ RespHas(<<63, 52, 59>>) \/ RespHas(<<63, 52, 99>>)
                  \/ RespHas(<<59, 52, 59>>) \/ RespHas(<<59, 52, 99>>)
        expected == IF ack /\ raster THEN <<"KgpOld", "Sixel">>
                    ELSE IF ack THEN <<"KgpOld">>
                    ELSE IF raster THEN <<"Sixel">>
                    ELSE <<>>
    IN  (Returned /\ outcome # None /\ ~named) => csi = Ok(Unknown(expected))

\* C9 witness: the response holds the acknowledgment and a raster mark and
\* classifies as Unknown([KgpOld, Sixel]).
C9_Witness ==
    Returned /\ outcome # None /\ csi = Ok(Unknown(<<"KgpOld", "Sixel">>))

\* C10: the read loop always terminates: once started it ends, and on an
\* immediate end of input (nothing was read) it ends without any wait.
C10_ReadTerminates ==
    /\ (pc = "read") ~> (pc # "read")
    /\ [](outcome = "failed" /\ buf = <<>> => elapsed = 0)

\* C10 witness: a stream that never satisfied the terminator condition and
\* stopped delivering bytes; the read ended when the timeout elapsed.
C10_Witness ==
    /\ outcome = "elapsed" /\ buf # <<>> /\ wire = <<>> /\ stdin = <<>>
    /\ elapsed = TIMEOUT_SECS

\* ---------------------------------------------------------------- move_lock
\* The calls of move_lock.
Calls == {t \in Threads : role[t] = "move_lock"}

\* Where the callback stands in the log l of a call, 0 when not invoked.
CalledAt(l) ==
    IF \E i \in 1..Len(l) : l[i] = Called
    THEN CHOOSE i \in 1..Len(l) : l[i] = Called
    ELSE 0

\* How often e stands in l at the positions from..to.
Occ(l, e, from, to) == Cardinality({i \in from..to : l[i] = e})

\* The call of t has returned what its callback returned.
Succeeded(t) == mpc[t] \in {"drop", "done"} /\ ret[t] \in CbResults

\* C11: when the multiplexer is active or the backend is the console, a call
\* that reaches its callback has issued its coordinate three times before
\* it, and a call that returns the callback's result has issued one Hide
\* followed by one RestorePosition after it; otherwise one MoveTo before and
\* one RestorePosition, without Hide, after.  No MoveTo follows the callback.
C11_PositioningSequence ==
    \A t \in Calls :
        LET l == log[t]
            c == CalledAt(l)
            n == Len(l)
            mv == Queued(MoveTo(xy[t][1], xy[t][2]))
        IN  /\ c > 0 => /\ Occ(l, mv, 1, c - 1) = (IF Drift THEN 3 ELSE 1)
                        /\ Occ(l, mv, c + 1, n) = 0
                        /\ Occ(l, Queued(RestorePosition), 1, c - 1) = 0
            /\ Succeeded(t) =>
                  /\ Occ(l, Queued(RestorePosition), c + 1, n) = 1
                  /\ Occ(l, Queued(Hide), c + 1, n) = (IF Drift THEN 1 ELSE 0)
                  /\ Drift => \E i \in (c + 1)..(n - 1) :
                                 /\ l[i] = Queued(Hide)
                                 /\ l[i + 1] = Queued(RestorePosition)

C11_Witness ==
    /\ Drift /\ Succeeded(1) /\ mpc[1] = "done"
    /\ Occ(log[1], Queued(MoveTo(xy[1][1], xy[1][2])), 1, Len(log[1])) = 3

\* C12 as stated: a call that succeeds has flushed the stream once, after
\* the restoring instructions were buffered.
C12_FlushedOnce ==
    \A t \in Calls :
        Succeeded(t) =>
            /\ Occ(log[t], Flushed, 1, Len(log[t])) = 1
            /\ log[t][Len(log[t])] = Flushed

\* C12: a call that succeeds ends with one flush by move_lock, after the
\* restoring instructions were buffered.  It is the only flush by move_lock
\* when neither the multiplexer is active nor the backend is the console;
\* otherwise three more precede the callback, one after each positioning
\* write.
C12_FinalFlushAfterRestore ==
    \A t \in Calls :
        LET l == log[t]
            c == CalledAt(l)
            n == Len(l)
        IN  Succeeded(t) =>
                /\ l[n] = Flushed
                /\ l[n - 1] = Queued(RestorePosition)
                /\ Occ(l, Flushed, c + 1, n) = 1
                /\ Occ(l, Flushed, 1, c - 1) = (IF Drift THEN 3 ELSE 0)

C12_Witness ==
    /\ Drift /\ Succeeded(2) /\ mpc[2] = "done"
    /\ Occ(log[2], Flushed, 1, Len(log[2])) = 4

\* C13: a call that returns without having invoked its callback returns the
\* transmission error; a call whose callback was invoked returns the
\* transmission error or exactly what the callback returned; it returns
\* what the callback returned, Ok or Err, exactly when the restoring
\* instructions were buffered and the final flush was done after them.
C13_ErrorSurface ==
    \A t \in Calls :
        LET l == log[t]
            c == CalledAt(l)
            n == Len(l)
            restored == /\ n > c + 1
                        /\ l[n] = Flushed
                        /\ l[n - 1] = Queued(RestorePosition)
        IN  mpc[t] \in {"drop", "done"} =>
                /\ c = 0 => ret[t] = IoError /\ cres[t] = NoResult
                /\ c > 0 => /\ cres[t] \in CbResults
                            /\ ret[t] \in {IoError, cres[t]}
                            /\ ret[t] = cres[t] <=> restored

C13_Witness ==
    /\ mpc[1] = "done"
    /\ cres[1].kind = "err" /\ ret[1] = cres[1]
    /\ log[1][Len(log[1])] = Flushed

\* C18: what a call of move_lock sends to stderr is contiguous there: between
\* its first and its last instruction no instruction of another thread has
\* reached the stream.
C18_ExclusiveStream ==
    \A t \in Calls :
        \A i, j \in 1..Len(stream) :
            stream[i][1] = t /\ stream[j][1] = t =>
                \A k \in i..j : stream[k][1] = t

C18_Witness ==
    /\ Drift
    /\ \A t \in Threads : mpc[t] = "done"
    /\ \E i, j \in 1..Len(stream) :
          /\ i + 3 < j
          /\ stream[i][1] = 2 /\ stream[i + 1][1] = 1 /\ stream[j][1] = 1

\* ------------------------------------------------------------ read_until_da1
\* Position k of b ends a device-attributes reply: b[k] is 'c', a 0x1b stands
\* before it, and what follows the last 0x1b before it begins with "[?".
TermAt(b, k) ==
    /\ b[k] = 99
    /\ \E e \in 1..(k - 1) :
          /\ b[e] = 27
          /\ \A j \in (e + 1)..k : b[j] # 27
          /\ e + 2 <= k
          /\ b[e + 1] = 91
          /\ b[e + 2] = 63

\* C14: the read ends by the terminator exactly at the first position of the
\* input that ends a device-attributes reply: no earlier position of the
\* buffer is one, and the last position is one iff the read ended by the
\* terminator.  A 'c' elsewhere (no 0x1b before it, or the segment since the
\* last 0x1b not beginning with "[?") does not end the read.
C14_TerminatorRule ==
    /\ \A k \in 1..(Len(buf) - 1) : ~TermAt(buf, k)
    /\ outcome = "ok" => buf # <<>>
    /\ buf # <<>> => (TermAt(buf, Len(buf)) <=> outcome = "ok")

\* C14 witness: the read ended by the terminator after it had passed a 'c'
\* that did not end it.
C14_Witness ==
    /\ outcome = "ok"
    /\ \E k \in 1..(Len(buf) - 1) : buf[k] = 99

RECURSIVE Flatten(_)
Flatten(ss) == IF ss = <<>> THEN <<>> ELSE Head(ss) \o Flatten(Tail(ss))

\* The input of the probe: what it has appended, what it has taken without
\* appending, and what is still to come.
Input == buf \o rdbuf \o discarded \o stdin \o Flatten(wire)

\* The read ended by the timeout or by the end of input.
EndedEarly == Returned /\ outcome \in {"elapsed", "failed"}

\* The classification by name, then by flags, of the bytes b.
Expected(b) ==
    LET has(t) == Contains(b, t)
        ack == has(<<27, 95, 71, 105, 61, 51, 49, 59, 79, 75>>)
        raster == \/ has(<<63, 52, 59>>) \/ has(<<63, 52, 99>>)
                  \/ has(<<59, 52, 59>>) \/ has(<<59, 52, 99>>)
    IN  IF has(<<107, 105, 116, 116, 121>>) THEN Named("Kitty")
        ELSE IF has(<<75, 111, 110, 115, 111, 108, 101>>) THEN Named("Konsole")
        ELSE IF has(<<105, 84, 101, 114, 109, 50>>) THEN Named("Iterm2")
        ELSE IF has(<<87, 101, 122, 84, 101, 114, 109>>) THEN Named("WezTerm")
        ELSE IF has(<<102, 111, 111, 116>>) THEN Named("Foot")
        ELSE IF has(<<103, 104, 111, 115, 116, 116, 121>>) THEN Named("Ghostty")
        ELSE Unknown((IF ack THEN <<"KgpOld">> ELSE <<>>)
                     \o (IF raster THEN <<"Sixel">> ELSE <<>>))

\* C15 as stated: after a timeout or an end of input read_until_da1 returns
\* exactly the bytes read, and they are classified by name, then by flags.
C15_ReturnsBytesRead ==
    EndedEarly => Resp = buf /\ csi = Ok(Expected(buf))

\* C15: while the read runs no byte of the input is dropped or added, so the
\* buffer is a prefix of the input; after a timeout or an end of input
\* read_until_da1 returns that prefix decoded permissively (a byte that is
\* not valid UTF-8 is returned as U+FFFD, every other byte as itself), and
\* via_csi classifies it by name, then by flags.
C15_PartialBufferClassified ==
    /\ [][pc = "read" => Input' = Input /\ StartsWith(Input', buf')]_vars
    /\ [](EndedEarly =>
            /\ Len(Resp) = Len(buf)
            /\ \A i \in 1..Len(buf) :
                   Resp[i] = (IF buf[i] < 128 THEN buf[i] ELSE 65533)
            /\ csi = Ok(Expected(buf)))

\* C15 witness: the read timed out after the acknowledgment alone.
C15_Witness ==
    /\ Returned /\ outcome = "elapsed"
    /\ buf = <<27, 95, 71, 105, 61, 51, 49, 59, 79, 75, 27, 92>>
    /\ csi = Ok(Unknown(<<"KgpOld">>))

\* ------------------------------------------------------------------ via_csi
\* C16: the steps of via_csi keep their order.  The query is written, the
\* read runs and the response is classified only in raw mode, that is after
\* enable_raw_mode succeeded; bytes are read, and the read runs or has ended,
\* only after the whole query was written; a failed enable_raw_mode leaves
\* nothing written and nothing read, a failed write nothing read.
C16_ProbeOrder ==
    /\ pc \in {"write", "read", "classify"} => raw
    /\ (\/ pc \in {"read", "classify"} \/ outcome # None
        \/ buf # <<>> \/ rdbuf # <<>> \/ discarded # <<>>) => out = QueryOut
    /\ csi = Err("enable_raw_mode") => out = <<>> /\ outcome = None /\ buf = <<>>
    /\ csi = Err("execute") =>
          /\ Len(out) < Len(QueryOut)
          /\ outcome = None /\ buf = <<>> /\ rdbuf = <<>> /\ stdin = <<>>
    /\ csi.kind = "ok" => outcome # None /\ out = QueryOut

C16_Witness ==
    /\ pc = "done" /\ csi.kind = "ok" /\ outcome = "ok"
    /\ out = QueryOut /\ buf # <<>>

\* The graphics request "\x1b_Gi=31,s=1,v=1,a=q,t=d,f=24;AAAA\x1b\\", the
\* device-attributes query "\x1b[c" and the terminal-version query "\x1b[>q".
GraphicsRequest ==
    <<27, 95, 71, 105, 61, 51, 49, 44, 115, 61, 49, 44, 118, 61, 49, 44, 97,
      61, 113, 44, 116, 61, 100, 44, 102, 61, 50, 52, 59, 65, 65, 65, 65, 27,
      92>>
Da1Query == <<27, 91, 99>>
VersionQuery == <<27, 91, 62, 113>>

\* The write of the query succeeded.
Written == pc = "read" \/ outcome # None

\* C17 as stated: what a probe writes is cursor-save, the wrapped query,
\* cursor-restore, and the query is the graphics request followed by the
\* device-attributes query and nothing else.
C17_GraphicsThenDa1Only ==
    Written => out = <<<<27, 55>>,
                       Mux_csi(GraphicsRequest \o Da1Query, tmux),
                       <<27, 56>>>>

\* C17: what a probe writes is cursor-save, the wrapped query, cursor-restore,
\* in this order, and the query is the terminal-version query, then the
\* graphics request, then the device-attributes query, and nothing else.
C17_VersionGraphicsDa1 ==
    Written => out = <<<<27, 55>>,
                       Mux_csi(VersionQuery \o GraphicsRequest \o Da1Query, tmux),
                       <<27, 56>>>>

C17_Witness ==
    /\ Written /\ tmux /\ Len(out) = 3
    /\ StartsWith(out[2], <<27, 80>>)

\* C19: after read_until_da1 has returned, the probe has taken from standard
\* input only the bytes in its buffer: none was taken and dropped, and no
\* read of the probe is left outstanding.
C19_OnlyAppendedBytesTaken ==
    Returned => discarded = <<>> /\ ~pending

\* -------------------------------------------------------------- FilesSorter
\* The keys that are numbers, and the number an item has under the key.
KeyOf(f) ==
    CASE sorter.by = "Mtime" -> f.mtime
      [] sorter.by = "Btime" -> f.btime
      [] OTHER -> IF f.is_dir /\ (\E e \in sizes : e[1] = f.name)
                  THEN (CHOOSE e \in sizes : e[1] = f.name)[2]
                  ELSE f.len

\* C20: sort leaves a permutation of its input.  With dir_first and the key
\* Mtime, Btime, Extension, Alphabetical, Natural or Size every directory
\* stands before every other item, whatever reverse is; inside the
\* directories and inside the other items the keys Mtime, Btime and Size
\* ascend, or descend when reverse is set.  With the key None the items
\* stay in the order of the input.
C20_DirectoriesFirst ==
    spc = "done" =>
        /\ Len(items) = Len(input)
        /\ {items[i] : i \in 1..Len(items)} = {input[i] : i \in 1..Len(input)}
        /\ (/\ sorter.dir_first
            /\ sorter.by \in {"Mtime", "Btime", "Extension", "Alphabetical",
                              "Natural", "Size"})
              => \A i, j \in 1..Len(items) :
                    i < j => ~(~items[i].is_dir /\ items[j].is_dir)
        /\ (sorter.dir_first /\ sorter.by \in {"Mtime", "Btime", "Size"})
              => \A i, j \in 1..Len(items) :
                    (i < j /\ items[i].is_dir = items[j].is_dir) =>
                        IF sorter.reverse
                        THEN KeyOf(items[i]) >= KeyOf(items[j])
                        ELSE KeyOf(items[i]) <= KeyOf(items[j])
        /\ sorter.by = "None" => items = input

\* C20 witness: a reversed natural sort with dir_first moved a directory
\* from behind another item to the front.
C20_Witness ==
    /\ spc = "done"
    /\ sorter.dir_first /\ sorter.reverse /\ sorter.by = "Natural"
    /\ Len(input) = 3
    /\ ~input[1].is_dir /\ input[3].is_dir
    /\ items[1].is_dir
====
